---- MODULE Spec2Model ----
(***************************************************************************)
(* Wet Section Buffer Counter: the polling tick read_inputs_and_update of  *)
(* wsbc_script.py, its four edge-detection/cooldown channel blocks, the    *)
(* two running sums, the change-only card updates and the rescheduling.    *)
(***************************************************************************)
EXTENDS Integers, Sequences, FiniteSets

\* ---------------------------------------------------------------------
\* Program constants
\* ---------------------------------------------------------------------
CHANNEL_OHB_ADD == 1
CHANNEL_OHB_SUB == 2
CHANNEL_WS_ADD == 3
CHANNEL_WS_SUB == 4
SENSOR_DELAY == 1000
START_DELAY_MS == 200
RETRY_MIN_MS == 200
POLL_INTERVAL_SHIPPED == 10

\* ---------------------------------------------------------------------
\* Bounds of the model
\* ---------------------------------------------------------------------
\* the wall clock reads 0, half a cooldown, and then whole cooldowns later
MaxSteps == 1
\* number of poll intervals at or above the retry floor that are explored
MaxPollCfg == 2
\* longest run of active samples whose length is told apart
MaxRun == 4
\* longest run of consecutive failed ticks an observer tells apart
MaxFails == 2
\* scripted runs start at multiples of the cooldown up to this one
MaxBase == 6
\* samples fed to a trend graph beyond its capacity
MaxOver == 3
\* the timing observer's clock runs to this many half cooldowns
MaxHalves == 4
\* longest streak of quick toggles the timing observer tells apart
MaxToggles == 3
\* graphing variant (test_wsbc_script.py)
OHB_ADD_DELAY_MS == 1000
OHB_SUB_DELAY_MS == 1000
WS_ADD_DELAY_MS == 1000
WS_SUB_DELAY_MS == 1000
MAX_POINTS == 240

Channels == {CHANNEL_OHB_ADD, CHANNEL_OHB_SUB, CHANNEL_WS_ADD, CHANNEL_WS_SUB}
\* reads that may raise: the first (nothing read yet) and the last (three read)
FailChannels == {CHANNEL_OHB_ADD, CHANNEL_WS_SUB}
HalfDelay == SENSOR_DELAY \div 2
Times == {0} \cup {HalfDelay + k * SENSOR_DELAY : k \in 0..MaxSteps}
SampleValues == {0, 1}
Samples == [1..4 -> SampleValues]
\* sample vectors with at most one sensor active
OneActive == {smp \in Samples : Cardinality({ch \in Channels : smp[ch] = 1}) <= 1}
\* poll intervals: the shipped one, and values at and above the retry floor
PollIntervals == {POLL_INTERVAL_SHIPPED} \cup {RETRY_MIN_MS * k : k \in 1..MaxPollCfg}
Cards == {"total", "ohb", "ws"}

VARIABLES
    POLL_INTERVAL_MS,
    sum_ohb, sum_ws,
    prev_total, prev_ohb, prev_ws,
    sig_ohb_add_detected, sig_ohb_sub_detected,
    sig_ws_add_detected, sig_ws_sub_detected,
    timer_ohb_add, timer_ohb_sub, timer_ws_add, timer_ws_sub,
    total_card, ohb_card, ws_card,
    \* what the last tick did
    s,            \* samples s1..s4 of the last tick, <<>> if a read raised (or no tick yet)
    raised_at,    \* channel whose rel.get_in raised in the last tick, 0 if none
    now_ms,       \* timestamp computed by the last tick that got that far
    event,        \* per channel: signed effect of the count branch taken, 0 if none
    notified,     \* cards whose set_value ran in the last tick
    after_ms,     \* delay of the pending main.after callback
    pending,      \* number of read_inputs_and_update callbacks queued in Tk
    watched,      \* the channel an observer follows
    hist,         \* what the observer has seen of the watched channel
    live,         \* what an observer of the poll loop has counted
    script,       \* the scripted run being played: its time base and position
    graph_panel,  \* graphing variant: the TrendGraph object
    series_calls, \* graphing variant: update_series calls made by the last tick
    twin,         \* graphing variant run side by side: its debounce globals
    track         \* what a second observer has timed on the watched channel

counters == <<sum_ohb, sum_ws>>
prevs == <<prev_total, prev_ohb, prev_ws>>
flags == <<sig_ohb_add_detected, sig_ohb_sub_detected,
           sig_ws_add_detected, sig_ws_sub_detected>>
timers == <<timer_ohb_add, timer_ohb_sub, timer_ws_add, timer_ws_sub>>
cards == <<total_card, ohb_card, ws_card>>
vars == <<POLL_INTERVAL_MS, sum_ohb, sum_ws, prev_total, prev_ohb, prev_ws,
          sig_ohb_add_detected, sig_ohb_sub_detected,
          sig_ws_add_detected, sig_ws_sub_detected,
          timer_ohb_add, timer_ohb_sub, timer_ws_add, timer_ws_sub,
          total_card, ohb_card, ws_card,
          s, raised_at, now_ms, event, notified, after_ms, pending,
          watched, hist, live, script, graph_panel, series_calls, twin,
          track>>
trend == <<graph_panel, series_calls>>

Max(a, b) == IF a >= b THEN a ELSE b

\* TrendGraph.__init__: the history part of a new graph
TrendGraph ==
    [max_points |-> MAX_POINTS,
     history_times |-> <<>>, history_ohb |-> <<>>, history_ws |-> <<>>]

\* the graphing variant's debounce globals as its module sets them
NoTwin ==
    [detected |-> [ch \in Channels |-> FALSE],
     timer |-> [ch \in Channels |-> 0],
     sum_ohb |-> 0, sum_ws |-> 0,
     event |-> [ch \in Channels |-> 0]]

\* nothing timed yet: no fall of the input and no event seen (-1)
NoTrack ==
    [high |-> FALSE, fell_at |-> -1, last_event_at |-> -1, spacing |-> -1,
     streak |-> 0, streak_fired |-> FALSE, clamped |-> FALSE, leak |-> FALSE]

\* no scripted run
NoScript == [base |-> 0, step |-> 0]

\* nothing seen of the poll loop yet
NoLive == [beat |-> 0, fails |-> 0, resumed |-> 0]

\* Tk runs an `after` callback once and forgets it
AfterFired(n) == n - 1

\* variant: the callback is registered twice
MainAfterTwice(n) == n + 2

\* main.after(delay, read_inputs_and_update) queues one more callback
MainAfter(n) == n + 1

NoEvent == [ch \in Channels |-> 0]

\* observer record of the watched channel: high = last sample active; run = length of
\* the current (or last) run of active samples; events = events emitted since
\* that run began; first = an event was emitted on the run's first sample;
\* elapsed = the cooldown had elapsed on the run's first sample; released = a
\* release has been observed; gated = the run began within the cooldown of
\* an observed release
NoHistory == [high |-> FALSE, run |-> 0, events |-> 0, first |-> FALSE,
              elapsed |-> FALSE, released |-> FALSE, gated |-> FALSE]

\* ---------------------------------------------------------------------
\* The four channel blocks of read_inputs_and_update.  Each takes the
\* sample, the channel's flag and timer, the sum it acts on and now_ms,
\* and yields the new flag, timer and sum and the effect it counted.
\* ---------------------------------------------------------------------
\* variant: the cooldown must be exceeded, not merely reached
OhbAddBlockStrict(s1, detected, timer, sum, now) ==
    IF s1 = 1 /\ ~detected
    THEN IF (now - timer) > SENSOR_DELAY
         THEN [detected |-> TRUE, timer |-> timer, sum |-> sum + 1, event |-> 1]
         ELSE [detected |-> TRUE, timer |-> timer, sum |-> sum, event |-> 0]
    ELSE IF s1 # 1 /\ detected
    THEN [detected |-> FALSE, timer |-> now, sum |-> sum, event |-> 0]
    ELSE [detected |-> detected, timer |-> timer, sum |-> sum, event |-> 0]

\* variant: a suppressed rising edge leaves the sensor unheld, so the hold
\* counts later, once the cooldown has elapsed
OhbAddBlockRearm(s1, detected, timer, sum, now) ==
    IF s1 = 1 /\ ~detected
    THEN IF (now - timer) >= SENSOR_DELAY
         THEN [detected |-> TRUE, timer |-> timer, sum |-> sum + 1, event |-> 1]
         ELSE [detected |-> FALSE, timer |-> timer, sum |-> sum, event |-> 0]
    ELSE IF s1 # 1 /\ detected
    THEN [detected |-> FALSE, timer |-> now, sum |-> sum, event |-> 0]
    ELSE [detected |-> detected, timer |-> timer, sum |-> sum, event |-> 0]

\* variant: half the cooldown is enough
OhbAddBlockHalfDelay(s1, detected, timer, sum, now) ==
    IF s1 = 1 /\ ~detected
    THEN IF (now - timer) >= SENSOR_DELAY \div 2
         THEN [detected |-> TRUE, timer |-> timer, sum |-> sum + 1, event |-> 1]
         ELSE [detected |-> TRUE, timer |-> timer, sum |-> sum, event |-> 0]
    ELSE IF s1 # 1 /\ detected
    THEN [detected |-> FALSE, timer |-> now, sum |-> sum, event |-> 0]
    ELSE [detected |-> detected, timer |-> timer, sum |-> sum, event |-> 0]

\* variant: a suppressed activation does not latch and is tried again
OhbAddBlockRetry(s1, detected, timer, sum, now) ==
    IF s1 = 1 /\ ~detected
    THEN IF (now - timer) >= SENSOR_DELAY
         THEN [detected |-> TRUE, timer |-> timer, sum |-> sum + 1, event |-> 1]
         ELSE [detected |-> FALSE, timer |-> timer, sum |-> sum, event |-> 0]
    ELSE IF s1 # 1 /\ detected
    THEN [detected |-> FALSE, timer |-> now, sum |-> sum, event |-> 0]
    ELSE [detected |-> detected, timer |-> timer, sum |-> sum, event |-> 0]

OhbAddBlock(s1, detected, timer, sum, now) ==
    IF s1 = 1 /\ ~detected
    THEN IF (now - timer) >= SENSOR_DELAY
         THEN [detected |-> TRUE, timer |-> timer, sum |-> sum + 1, event |-> 1]
         ELSE [detected |-> TRUE, timer |-> timer, sum |-> sum, event |-> 0]
    ELSE IF s1 # 1 /\ detected
    THEN [detected |-> FALSE, timer |-> now, sum |-> sum, event |-> 0]
    ELSE [detected |-> detected, timer |-> timer, sum |-> sum, event |-> 0]

\* variant: a suppressed rising edge leaves the sensor unheld (re-armed)
OhbSubBlockRearm(s2, detected, timer, sum, now) ==
    IF s2 = 1 /\ ~detected
    THEN IF (now - timer) >= SENSOR_DELAY
         THEN [detected |-> TRUE, timer |-> timer,
               sum |-> IF sum > 0 THEN sum - 1 ELSE sum, event |-> -1]
         ELSE [detected |-> FALSE, timer |-> timer, sum |-> sum, event |-> 0]
    ELSE IF s2 # 1 /\ detected
    THEN [detected |-> FALSE, timer |-> now, sum |-> sum, event |-> 0]
    ELSE [detected |-> detected, timer |-> timer, sum |-> sum, event |-> 0]

\* variant: the decrement is applied without the zero floor
OhbSubBlockNoFloor(s2, detected, timer, sum, now) ==
    IF s2 = 1 /\ ~detected
    THEN IF (now - timer) >= SENSOR_DELAY
         THEN [detected |-> TRUE, timer |-> timer, sum |-> sum - 1, event |-> -1]
         ELSE [detected |-> TRUE, timer |-> timer, sum |-> sum, event |-> 0]
    ELSE IF s2 # 1 /\ detected
    THEN [detected |-> FALSE, timer |-> now, sum |-> sum, event |-> 0]
    ELSE [detected |-> detected, timer |-> timer, sum |-> sum, event |-> 0]

\* variant: a release inside the cooldown does not restart it
OhbSubBlockKeepStamp(s2, detected, timer, sum, now) ==
    IF s2 = 1 /\ ~detected
    THEN IF (now - timer) >= SENSOR_DELAY
         THEN [detected |-> TRUE, timer |-> timer,
               sum |-> IF sum > 0 THEN sum - 1 ELSE sum, event |-> -1]
         ELSE [detected |-> TRUE, timer |-> timer, sum |-> sum, event |-> 0]
    ELSE IF s2 # 1 /\ detected
    THEN [detected |-> FALSE,
          timer |-> IF (now - timer) >= SENSOR_DELAY THEN now ELSE timer,
          sum |-> sum, event |-> 0]
    ELSE [detected |-> detected, timer |-> timer, sum |-> sum, event |-> 0]

\* variant: a decrement that found the sum at zero is applied later, as
\* soon as the sum is positive while the sensor is still held
WsSubBlockDeferred(s4, detected, timer, sum, now) ==
    IF s4 = 1 /\ ~detected
    THEN IF (now - timer) >= SENSOR_DELAY
         THEN [detected |-> TRUE, timer |-> timer,
               sum |-> IF sum > 0 THEN sum - 1 ELSE sum, event |-> -1]
         ELSE [detected |-> TRUE, timer |-> timer, sum |-> sum, event |-> 0]
    ELSE IF s4 # 1 /\ detected
    THEN [detected |-> FALSE, timer |-> now, sum |-> sum, event |-> 0]
    ELSE IF s4 = 1 /\ sum > 0
    THEN [detected |-> detected, timer |-> timer, sum |-> sum - 1, event |-> -1]
    ELSE [detected |-> detected, timer |-> timer, sum |-> sum, event |-> 0]

\* variant: the OHB subtract sensor counts upwards
OhbSubBlockAdds(s2, detected, timer, sum, now) ==
    IF s2 = 1 /\ ~detected
    THEN IF (now - timer) >= SENSOR_DELAY
         THEN [detected |-> TRUE, timer |-> timer, sum |-> sum + 1, event |-> -1]
         ELSE [detected |-> TRUE, timer |-> timer, sum |-> sum, event |-> 0]
    ELSE IF s2 # 1 /\ detected
    THEN [detected |-> FALSE, timer |-> now, sum |-> sum, event |-> 0]
    ELSE [detected |-> detected, timer |-> timer, sum |-> sum, event |-> 0]

OhbSubBlock(s2, detected, timer, sum, now) ==
    IF s2 = 1 /\ ~detected
    THEN IF (now - timer) >= SENSOR_DELAY
         THEN [detected |-> TRUE, timer |-> timer,
               sum |-> IF sum > 0 THEN sum - 1 ELSE sum, event |-> -1]
         ELSE [detected |-> TRUE, timer |-> timer, sum |-> sum, event |-> 0]
    ELSE IF s2 # 1 /\ detected
    THEN [detected |-> FALSE, timer |-> now, sum |-> sum, event |-> 0]
    ELSE [detected |-> detected, timer |-> timer, sum |-> sum, event |-> 0]

\* variant: the release clears the flag but does not restart the cooldown
WsAddBlockNoTimer(s3, detected, timer, sum, now) ==
    IF s3 = 1 /\ ~detected
    THEN IF (now - timer) >= SENSOR_DELAY
         THEN [detected |-> TRUE, timer |-> timer, sum |-> sum + 1, event |-> 1]
         ELSE [detected |-> TRUE, timer |-> timer, sum |-> sum, event |-> 0]
    ELSE IF s3 # 1 /\ detected
    THEN [detected |-> FALSE, timer |-> timer, sum |-> sum, event |-> 0]
    ELSE [detected |-> detected, timer |-> timer, sum |-> sum, event |-> 0]

\* variant: level-triggered, every active sample past the cooldown counts
WsAddBlockLevel(s3, detected, timer, sum, now) ==
    IF s3 = 1
    THEN IF (now - timer) >= SENSOR_DELAY
         THEN [detected |-> TRUE, timer |-> timer, sum |-> sum + 1, event |-> 1]
         ELSE [detected |-> TRUE, timer |-> timer, sum |-> sum, event |-> 0]
    ELSE IF s3 # 1 /\ detected
    THEN [detected |-> FALSE, timer |-> now, sum |-> sum, event |-> 0]
    ELSE [detected |-> detected, timer |-> timer, sum |-> sum, event |-> 0]

\* variant: the block reads the clock itself, one millisecond later
WsAddBlockOwnClock(s3, detected, timer, sum, now) ==
    IF s3 = 1 /\ ~detected
    THEN IF ((now + 1) - timer) >= SENSOR_DELAY
         THEN [detected |-> TRUE, timer |-> timer, sum |-> sum + 1, event |-> 1]
         ELSE [detected |-> TRUE, timer |-> timer, sum |-> sum, event |-> 0]
    ELSE IF s3 # 1 /\ detected
    THEN [detected |-> FALSE, timer |-> now + 1, sum |-> sum, event |-> 0]
    ELSE [detected |-> detected, timer |-> timer, sum |-> sum, event |-> 0]

WsAddBlock(s3, detected, timer, sum, now) ==
    IF s3 = 1 /\ ~detected
    THEN IF (now - timer) >= SENSOR_DELAY
         THEN [detected |-> TRUE, timer |-> timer, sum |-> sum + 1, event |-> 1]
         ELSE [detected |-> TRUE, timer |-> timer, sum |-> sum, event |-> 0]
    ELSE IF s3 # 1 /\ detected
    THEN [detected |-> FALSE, timer |-> now, sum |-> sum, event |-> 0]
    ELSE [detected |-> detected, timer |-> timer, sum |-> sum, event |-> 0]

\* variant: a timer still at its initial 0 means "never released" and the
\* activation always counts
WsSubBlockFirstFree(s4, detected, timer, sum, now) ==
    IF s4 = 1 /\ ~detected
    THEN IF timer = 0 \/ (now - timer) >= SENSOR_DELAY
         THEN [detected |-> TRUE, timer |-> timer,
               sum |-> IF sum > 0 THEN sum - 1 ELSE sum, event |-> -1]
         ELSE [detected |-> TRUE, timer |-> timer, sum |-> sum, event |-> 0]
    ELSE IF s4 # 1 /\ detected
    THEN [detected |-> FALSE, timer |-> now, sum |-> sum, event |-> 0]
    ELSE [detected |-> detected, timer |-> timer, sum |-> sum, event |-> 0]

\* variant: an idle sensor keeps its release time fresh
WsSubBlockIdleStamp(s4, detected, timer, sum, now) ==
    IF s4 = 1 /\ ~detected
    THEN IF (now - timer) >= SENSOR_DELAY
         THEN [detected |-> TRUE, timer |-> timer,
               sum |-> IF sum > 0 THEN sum - 1 ELSE sum, event |-> -1]
         ELSE [detected |-> TRUE, timer |-> timer, sum |-> sum, event |-> 0]
    ELSE IF s4 # 1
    THEN [detected |-> FALSE, timer |-> now, sum |-> sum, event |-> 0]
    ELSE [detected |-> detected, timer |-> timer, sum |-> sum, event |-> 0]

\* variant: a suppressed activation does not latch
WsSubBlockRetry(s4, detected, timer, sum, now) ==
    IF s4 = 1 /\ ~detected
    THEN IF (now - timer) >= SENSOR_DELAY
         THEN [detected |-> TRUE, timer |-> timer,
               sum |-> IF sum > 0 THEN sum - 1 ELSE sum, event |-> -1]
         ELSE [detected |-> FALSE, timer |-> timer, sum |-> sum, event |-> 0]
    ELSE IF s4 # 1 /\ detected
    THEN [detected |-> FALSE, timer |-> now, sum |-> sum, event |-> 0]
    ELSE [detected |-> detected, timer |-> timer, sum |-> sum, event |-> 0]

WsSubBlock(s4, detected, timer, sum, now) ==
    IF s4 = 1 /\ ~detected
    THEN IF (now - timer) >= SENSOR_DELAY
         THEN [detected |-> TRUE, timer |-> timer,
               sum |-> IF sum > 0 THEN sum - 1 ELSE sum, event |-> -1]
         ELSE [detected |-> TRUE, timer |-> timer, sum |-> sum, event |-> 0]
    ELSE IF s4 # 1 /\ detected
    THEN [detected |-> FALSE, timer |-> now, sum |-> sum, event |-> 0]
    ELSE [detected |-> detected, timer |-> timer, sum |-> sum, event |-> 0]

\* variant: the total card is refreshed whenever any card is
ChangedCardsTotalToo(total, ohb, ws, ptotal, pohb, pws) ==
    (IF total # ptotal \/ ohb # pohb \/ ws # pws THEN {"total"} ELSE {})
    \cup (IF ohb # pohb THEN {"ohb"} ELSE {})
    \cup (IF ws # pws THEN {"ws"} ELSE {})

\* cards whose value differs from the one reported before (change-only update)
\* variant: the total display is refreshed together with the OHB display
ChangedCardsTotalWithOhb(total, ohb, ws, ptotal, pohb, pws) ==
    (IF ohb # pohb THEN {"total", "ohb"} ELSE {})
        \cup (IF ws # pws THEN {"ws"} ELSE {})

\* variant: a display is left alone until its value has been reported once
ChangedCardsSkipInitial(total, ohb, ws, ptotal, pohb, pws) ==
    (IF total # ptotal /\ (ptotal # -1 \/ total # 0) THEN {"total"} ELSE {})
    \cup (IF ohb # pohb /\ (pohb # -1 \/ ohb # 0) THEN {"ohb"} ELSE {})
    \cup (IF ws # pws /\ (pws # -1 \/ ws # 0) THEN {"ws"} ELSE {})

ChangedCards(total, ohb, ws, ptotal, pohb, pws) ==
    (IF total # ptotal THEN {"total"} ELSE {})
    \cup (IF ohb # pohb THEN {"ohb"} ELSE {})
    \cup (IF ws # pws THEN {"ws"} ELSE {})

\* variant: the retry uses the plain poll interval
RetryDelayNoFloor(poll) == poll

\* delay used to reschedule after a failed hardware read
RetryDelay(poll) == Max(RETRY_MIN_MS, poll)

\* delay used to reschedule after a completed tick
PollDelay(poll) == poll

\* ---------------------------------------------------------------------
\* Initial state: module-level globals and the first main.after(200, ...)
\* ---------------------------------------------------------------------
Globals ==
    /\ sum_ohb = 0 /\ sum_ws = 0
    /\ prev_total = -1 /\ prev_ohb = -1 /\ prev_ws = -1
    /\ sig_ohb_add_detected = FALSE /\ sig_ohb_sub_detected = FALSE
    /\ sig_ws_add_detected = FALSE /\ sig_ws_sub_detected = FALSE
    /\ timer_ohb_add = 0 /\ timer_ohb_sub = 0
    /\ timer_ws_add = 0 /\ timer_ws_sub = 0
    /\ total_card = 0 /\ ohb_card = 0 /\ ws_card = 0
    /\ s = <<>>
    /\ raised_at = 0
    /\ now_ms = 0
    /\ event = NoEvent
    /\ notified = {}
    /\ after_ms = START_DELAY_MS
    /\ pending = MainAfter(0)
    /\ hist = NoHistory
    /\ live = NoLive
    /\ script.step = 0
    /\ graph_panel = TrendGraph
    /\ series_calls = <<>>
    /\ twin = NoTwin
    /\ track = NoTrack

Init ==
    /\ POLL_INTERVAL_MS = POLL_INTERVAL_SHIPPED
    /\ watched = CHANNEL_OHB_ADD
    /\ script = NoScript
    /\ Globals

\* the same program started with any of the explored poll intervals
InitCfg ==
    /\ POLL_INTERVAL_MS \in PollIntervals
    /\ watched = CHANNEL_OHB_ADD
    /\ script = NoScript
    /\ Globals

\* the shipped program, an observer following any one channel
InitHist ==
    /\ POLL_INTERVAL_MS = POLL_INTERVAL_SHIPPED
    /\ watched \in Channels
    /\ script = NoScript
    /\ Globals

\* variant: in each group the SUB sensor is processed before the ADD sensor
TickOkSubFirst(smp, t) ==
    LET b2 == OhbSubBlock(smp[2], sig_ohb_sub_detected, timer_ohb_sub, sum_ohb, t)
        b1 == OhbAddBlock(smp[1], sig_ohb_add_detected, timer_ohb_add, b2.sum, t)
        b4 == WsSubBlock(smp[4], sig_ws_sub_detected, timer_ws_sub, sum_ws, t)
        b3 == WsAddBlock(smp[3], sig_ws_add_detected, timer_ws_add, b4.sum, t)
        total == b1.sum + b3.sum
        changed == ChangedCards(total, b1.sum, b3.sum, prev_total, prev_ohb, prev_ws)
    IN  /\ pending >= 1
        /\ t >= now_ms
        /\ s' = smp
        /\ raised_at' = 0
        /\ now_ms' = t
        /\ sig_ohb_add_detected' = b1.detected /\ timer_ohb_add' = b1.timer
        /\ sig_ohb_sub_detected' = b2.detected /\ timer_ohb_sub' = b2.timer
        /\ sig_ws_add_detected' = b3.detected /\ timer_ws_add' = b3.timer
        /\ sig_ws_sub_detected' = b4.detected /\ timer_ws_sub' = b4.timer
        /\ sum_ohb' = b1.sum
        /\ sum_ws' = b3.sum
        /\ event' = [ch \in Channels |->
                        IF ch = CHANNEL_OHB_ADD THEN b1.event
                        ELSE IF ch = CHANNEL_OHB_SUB THEN b2.event
                        ELSE IF ch = CHANNEL_WS_ADD THEN b3.event
                        ELSE b4.event]
        /\ notified' = changed
        /\ prev_total' = IF "total" \in changed THEN total ELSE prev_total
        /\ prev_ohb' = IF "ohb" \in changed THEN b1.sum ELSE prev_ohb
        /\ prev_ws' = IF "ws" \in changed THEN b3.sum ELSE prev_ws
        /\ total_card' = IF "total" \in changed THEN total ELSE total_card
        /\ ohb_card' = IF "ohb" \in changed THEN b1.sum ELSE ohb_card
        /\ ws_card' = IF "ws" \in changed THEN b3.sum ELSE ws_card
        /\ after_ms' = PollDelay(POLL_INTERVAL_MS)
        /\ pending' = MainAfter(AfterFired(pending))
        /\ UNCHANGED POLL_INTERVAL_MS

\* variant: one release time for all sensors, so that a release of any
\* sensor restarts the cooldown of every sensor
TickOkSharedTimer(smp, t) ==
    LET shared == Max(Max(timer_ohb_add, timer_ohb_sub), Max(timer_ws_add, timer_ws_sub))
        b1 == OhbAddBlock(smp[1], sig_ohb_add_detected, shared, sum_ohb, t)
        b2 == OhbSubBlock(smp[2], sig_ohb_sub_detected, shared, b1.sum, t)
        b3 == WsAddBlock(smp[3], sig_ws_add_detected, shared, sum_ws, t)
        b4 == WsSubBlock(smp[4], sig_ws_sub_detected, shared, b3.sum, t)
        total == b2.sum + b4.sum
        changed == ChangedCards(total, b2.sum, b4.sum, prev_total, prev_ohb, prev_ws)
    IN  /\ pending >= 1
        /\ t >= now_ms
        /\ s' = smp
        /\ raised_at' = 0
        /\ now_ms' = t
        /\ sig_ohb_add_detected' = b1.detected
        /\ sig_ohb_sub_detected' = b2.detected
        /\ sig_ws_add_detected' = b3.detected
        /\ sig_ws_sub_detected' = b4.detected
        /\ timer_ohb_add' = IF b1.timer = t THEN t ELSE timer_ohb_add
        /\ timer_ohb_sub' = IF b2.timer = t THEN t ELSE timer_ohb_sub
        /\ timer_ws_add' = IF b3.timer = t THEN t ELSE timer_ws_add
        /\ timer_ws_sub' = IF b4.timer = t THEN t ELSE timer_ws_sub
        /\ sum_ohb' = b2.sum
        /\ sum_ws' = b4.sum
        /\ event' = [ch \in Channels |->
                        IF ch = CHANNEL_OHB_ADD THEN b1.event
                        ELSE IF ch = CHANNEL_OHB_SUB THEN b2.event
                        ELSE IF ch = CHANNEL_WS_ADD THEN b3.event
                        ELSE b4.event]
        /\ notified' = changed
        /\ prev_total' = IF "total" \in changed THEN total ELSE prev_total
        /\ prev_ohb' = IF "ohb" \in changed THEN b2.sum ELSE prev_ohb
        /\ prev_ws' = IF "ws" \in changed THEN b4.sum ELSE prev_ws
        /\ total_card' = IF "total" \in changed THEN total ELSE total_card
        /\ ohb_card' = IF "ohb" \in changed THEN b2.sum ELSE ohb_card
        /\ ws_card' = IF "ws" \in changed THEN b4.sum ELSE ws_card
        /\ after_ms' = PollDelay(POLL_INTERVAL_MS)
        /\ pending' = MainAfter(AfterFired(pending))
        /\ UNCHANGED POLL_INTERVAL_MS

\* ---------------------------------------------------------------------
\* read_inputs_and_update, all four reads returning: smp are the samples,
\* t the value of int(time.time() * 1000), which does not run backwards.
\* ---------------------------------------------------------------------
TickOk(smp, t) ==
    LET b1 == OhbAddBlock(smp[1], sig_ohb_add_detected, timer_ohb_add, sum_ohb, t)
        b2 == OhbSubBlock(smp[2], sig_ohb_sub_detected, timer_ohb_sub, b1.sum, t)
        b3 == WsAddBlock(smp[3], sig_ws_add_detected, timer_ws_add, sum_ws, t)
        b4 == WsSubBlock(smp[4], sig_ws_sub_detected, timer_ws_sub, b3.sum, t)
        total == b2.sum + b4.sum
        changed == ChangedCards(total, b2.sum, b4.sum, prev_total, prev_ohb, prev_ws)
    IN  /\ pending >= 1
        /\ t >= now_ms
        /\ s' = smp
        /\ raised_at' = 0
        /\ now_ms' = t
        /\ sig_ohb_add_detected' = b1.detected /\ timer_ohb_add' = b1.timer
        /\ sig_ohb_sub_detected' = b2.detected /\ timer_ohb_sub' = b2.timer
        /\ sig_ws_add_detected' = b3.detected /\ timer_ws_add' = b3.timer
        /\ sig_ws_sub_detected' = b4.detected /\ timer_ws_sub' = b4.timer
        /\ sum_ohb' = b2.sum
        /\ sum_ws' = b4.sum
        /\ event' = [ch \in Channels |->
                        IF ch = CHANNEL_OHB_ADD THEN b1.event
                        ELSE IF ch = CHANNEL_OHB_SUB THEN b2.event
                        ELSE IF ch = CHANNEL_WS_ADD THEN b3.event
                        ELSE b4.event]
        /\ notified' = changed
        /\ prev_total' = IF "total" \in changed THEN total ELSE prev_total
        /\ prev_ohb' = IF "ohb" \in changed THEN b2.sum ELSE prev_ohb
        /\ prev_ws' = IF "ws" \in changed THEN b4.sum ELSE prev_ws
        /\ total_card' = IF "total" \in changed THEN total ELSE total_card
        /\ ohb_card' = IF "ohb" \in changed THEN b2.sum ELSE ohb_card
        /\ ws_card' = IF "ws" \in changed THEN b4.sum ELSE ws_card
        /\ after_ms' = PollDelay(POLL_INTERVAL_MS)
        /\ pending' = MainAfter(AfterFired(pending))
        /\ UNCHANGED POLL_INTERVAL_MS

\* variant: each sample is processed as soon as it is read, so a read that
\* raises on a later channel leaves channel 1 (read high) already updated
TickReadFailedPartial(k) ==
    LET b1 == IF k > CHANNEL_OHB_ADD
              THEN OhbAddBlock(1, sig_ohb_add_detected, timer_ohb_add, sum_ohb, now_ms)
              ELSE [detected |-> sig_ohb_add_detected, timer |-> timer_ohb_add,
                    sum |-> sum_ohb, event |-> 0]
    IN  /\ pending >= 1
        /\ s' = <<>>
        /\ raised_at' = k
        /\ event' = NoEvent
        /\ notified' = {}
        /\ after_ms' = RetryDelay(POLL_INTERVAL_MS)
        /\ pending' = MainAfter(AfterFired(pending))
        /\ sig_ohb_add_detected' = b1.detected
        /\ timer_ohb_add' = b1.timer
        /\ sum_ohb' = b1.sum
        /\ UNCHANGED <<POLL_INTERVAL_MS, sum_ws, prevs, sig_ohb_sub_detected,
                       sig_ws_add_detected, sig_ws_sub_detected, timer_ohb_sub,
                       timer_ws_add, timer_ws_sub, cards, now_ms>>

\* variant: the except branch returns without main.after
TickReadFailedNoRetry(k) ==
    /\ pending >= 1
    /\ s' = <<>>
    /\ raised_at' = k
    /\ event' = NoEvent
    /\ notified' = {}
    /\ after_ms' = after_ms
    /\ pending' = AfterFired(pending)
    /\ UNCHANGED <<POLL_INTERVAL_MS, counters, prevs, flags, timers, cards, now_ms>>

\* ---------------------------------------------------------------------
\* read_inputs_and_update, rel.get_in raising on channel k after the
\* reads of channels 1..k-1 returned; the samples read are dropped.
\* ---------------------------------------------------------------------
TickReadFailed(k) ==
    /\ pending >= 1
    /\ s' = <<>>
    /\ raised_at' = k
    /\ event' = NoEvent
    /\ notified' = {}
    /\ after_ms' = RetryDelay(POLL_INTERVAL_MS)
    /\ pending' = MainAfter(AfterFired(pending))
    /\ UNCHANGED <<POLL_INTERVAL_MS, counters, prevs, flags, timers, cards, now_ms>>

Poll == \E smp \in Samples, t \in Times : TickOk(smp, t) /\ UNCHANGED <<watched, hist, live, script, trend, twin, track>>

PollFails == \E k \in FailChannels : TickReadFailed(k) /\ UNCHANGED <<watched, hist, live, script, trend, twin, track>>

Next == Poll \/ PollFails

Spec == Init /\ [][Next]_vars

\* any poll interval, at most one sensor active at a time
PollOneActive ==
    \E smp \in OneActive, t \in Times : TickOk(smp, t) /\ UNCHANGED <<watched, hist, live, script, trend, twin, track>>

NextCfg == PollOneActive \/ PollFails

SpecCfg == InitCfg /\ [][NextCfg]_vars

\* ---------------------------------------------------------------------
\* Vocabulary of the properties: the per-channel view of the globals
\* ---------------------------------------------------------------------
is_held(ch) ==
    IF ch = CHANNEL_OHB_ADD THEN sig_ohb_add_detected
    ELSE IF ch = CHANNEL_OHB_SUB THEN sig_ohb_sub_detected
    ELSE IF ch = CHANNEL_WS_ADD THEN sig_ws_add_detected
    ELSE sig_ws_sub_detected

last_release_time(ch) ==
    IF ch = CHANNEL_OHB_ADD THEN timer_ohb_add
    ELSE IF ch = CHANNEL_OHB_SUB THEN timer_ohb_sub
    ELSE IF ch = CHANNEL_WS_ADD THEN timer_ws_add
    ELSE timer_ws_sub

cooldown_duration(ch) == SENSOR_DELAY

\* signed effect of a channel's role: +1 for the ADD sensors, -1 for the SUB ones
Effect(ch) == IF ch \in {CHANNEL_OHB_ADD, CHANNEL_WS_ADD} THEN 1 ELSE -1

\* the last tick completed its four reads
TickSucceeded == raised_at = 0 /\ s # <<>>

\* the last tick's hardware read raised
TickFailed == raised_at # 0

\* a sum after the events of its group: the increment, then the floored decrement
AppliedSum(sum, eAdd, eSub) ==
    LET a == IF eAdd = 1 THEN sum + 1 ELSE sum
    IN  IF eSub = -1 /\ a > 0 THEN a - 1 ELSE a

SumsFollowEvents ==
    /\ sum_ohb' = AppliedSum(sum_ohb, event'[CHANNEL_OHB_ADD], event'[CHANNEL_OHB_SUB])
    /\ sum_ws' = AppliedSum(sum_ws, event'[CHANNEL_WS_ADD], event'[CHANNEL_WS_SUB])

\* ---------------------------------------------------------------------
\* Observer of one channel over a completed tick: a is the sample, now the
\* tick's timestamp, released_at the channel's last_release_time before the
\* tick, e the event the tick emitted for the channel.
\* ---------------------------------------------------------------------
Observe(h, a, now, released_at, e) ==
    LET n == IF e # 0 THEN 1 ELSE 0
        more == IF h.events + n > 2 THEN 2 ELSE h.events + n
        ok == (now - released_at) >= SENSOR_DELAY
    IN  IF a = 1 /\ ~h.high
        THEN [high |-> TRUE, run |-> 1, events |-> n, first |-> (e # 0),
              elapsed |-> ok, released |-> h.released,
              gated |-> (h.released /\ ~ok)]
        ELSE IF a = 1
        THEN [h EXCEPT !.run = IF h.run < MaxRun THEN h.run + 1 ELSE MaxRun,
                       !.events = more]
        ELSE IF h.high
        THEN [h EXCEPT !.high = FALSE, !.released = TRUE, !.events = more]
        ELSE [h EXCEPT !.events = more]

\* the two sensors of one sum form a group
SameGroup(a, b) ==
    (a \in {CHANNEL_OHB_ADD, CHANNEL_OHB_SUB}) <=> (b \in {CHANNEL_OHB_ADD, CHANNEL_OHB_SUB})

\* sample vectors in which only sensors of ch's group may be active
GroupSamples(ch) == {smp \in Samples : \A o \in Channels : smp[o] = 1 => SameGroup(o, ch)}

\* a completed tick in which the watched sensor's group is exercised, observed
PollWatched ==
    \E smp \in GroupSamples(watched), t \in Times :
        /\ TickOk(smp, t)
        /\ hist' = Observe(hist, smp[watched], t, last_release_time(watched),
                           event'[watched])
        /\ UNCHANGED <<watched, live, script, trend, twin, track>>

NextHist == PollWatched \/ PollFails

SpecHist == InitHist /\ [][NextHist]_vars

\* ---------------------------------------------------------------------
\* The poll loop under a fair Tk timer: a queued callback is eventually
\* run.  The observer flips beat at every tick, counts the consecutive
\* failed ticks (up to MaxFails) and remembers how many preceded the last
\* successful one.
\* ---------------------------------------------------------------------
Attempt(l, failed) ==
    [beat |-> 1 - l.beat,
     fails |-> IF failed THEN (IF l.fails < MaxFails THEN l.fails + 1 ELSE MaxFails)
               ELSE 0,
     resumed |-> IF failed THEN 0 ELSE l.fails]

PollLive ==
    \E smp \in GroupSamples(CHANNEL_OHB_ADD), t \in Times :
        /\ TickOk(smp, t)
        /\ live' = Attempt(live, FALSE)
        /\ UNCHANGED <<watched, hist, script, trend, twin, track>>

PollFailsLive ==
    \E k \in FailChannels :
        /\ TickReadFailed(k)
        /\ live' = Attempt(live, TRUE)
        /\ UNCHANGED <<watched, hist, script, trend, twin, track>>

NextLive == PollLive \/ PollFailsLive

SpecLive == Init /\ [][NextLive]_vars /\ WF_vars(NextLive)

\* ---------------------------------------------------------------------
\* The reference run on OHB_ADD: samples active, active, inactive, active,
\* active at base + 0, 10, 20, 500, 1200 ms, the other sensors inactive;
\* read failures may fall between the scripted ticks.
\* ---------------------------------------------------------------------
ScenarioOffsets == <<0, 10, 20, 500, 1200>>
ScenarioLevels == <<1, 1, 0, 1, 1>>
ScenarioBases == {k * SENSOR_DELAY : k \in 0..MaxBase}
ScenarioSample(i) ==
    [ch \in 1..4 |-> IF ch = CHANNEL_OHB_ADD THEN ScenarioLevels[i] ELSE 0]

InitScenario ==
    /\ POLL_INTERVAL_MS = POLL_INTERVAL_SHIPPED
    /\ watched = CHANNEL_OHB_ADD
    /\ script \in [base : ScenarioBases, step : {0}]
    /\ Globals

ScenarioTick ==
    /\ script.step < Len(ScenarioOffsets)
    /\ TickOk(ScenarioSample(script.step + 1),
              script.base + ScenarioOffsets[script.step + 1])
    /\ script' = [script EXCEPT !.step = @ + 1]
    /\ UNCHANGED <<watched, hist, live, trend, twin, track>>

NextScenario == ScenarioTick \/ PollFails

SpecScenario == InitScenario /\ [][NextScenario]_vars

\* ---------------------------------------------------------------------
\* A second observer of the watched channel, with its own clock notes.  It
\* sees of a completed tick the sample a, the timestamp now, the event e
\* emitted for the channel, the channel's sum before and after, and whether
\* the ADD sensor of that sum counted (up = 1).  It notes when the input
\* fell, when the last event came and how far it was from the one before,
\* how many rising edges in a row came less than a cooldown after the fall
\* before them and whether any event came in that streak, and whether a
\* hold began with a decrement on a sum at zero and anything was
\* subtracted or emitted later in that hold.
\* ---------------------------------------------------------------------
Follow(k, a, now, e, before, after, up) ==
    LET rising == a = 1 /\ ~k.high
        falling == a # 1 /\ k.high
        quick == rising /\ k.fell_at >= 0 /\ (now - k.fell_at) < SENSOR_DELAY
    IN  [high |-> (a = 1),
         fell_at |-> IF falling THEN now ELSE k.fell_at,
         last_event_at |-> IF e # 0 THEN now ELSE k.last_event_at,
         spacing |-> IF e # 0 /\ k.last_event_at >= 0
                     THEN now - k.last_event_at ELSE k.spacing,
         streak |-> IF quick
                    THEN (IF k.streak < MaxToggles THEN k.streak + 1 ELSE MaxToggles)
                    ELSE IF rising THEN 0 ELSE k.streak,
         streak_fired |-> IF quick THEN (k.streak_fired \/ e # 0)
                          ELSE IF rising THEN FALSE
                          ELSE (k.streak_fired \/ (k.streak > 0 /\ e # 0)),
         clamped |-> IF rising THEN (e = -1 /\ after = before + up)
                     ELSE IF falling THEN FALSE ELSE k.clamped,
         leak |-> (k.leak \/ (k.clamped /\ a = 1 /\ (e # 0 \/ after < before)))]

\* the sum the channel counts on
OwnSum(ch) == IF ch \in {CHANNEL_OHB_ADD, CHANNEL_OHB_SUB} THEN sum_ohb ELSE sum_ws

\* the ADD sensor of the channel's sum
AddOf(ch) == IF ch \in {CHANNEL_OHB_ADD, CHANNEL_OHB_SUB} THEN CHANNEL_OHB_ADD
             ELSE CHANNEL_WS_ADD

TrackTimes == {k * HalfDelay : k \in 0..MaxHalves}

PollTracked ==
    \E smp \in GroupSamples(watched), t \in TrackTimes :
        /\ TickOk(smp, t)
        /\ UNCHANGED <<watched, hist, live, script, trend, twin>>
        /\ track' = Follow(track, smp[watched], t, event'[watched],
                           OwnSum(watched), OwnSum(watched)',
                           event'[AddOf(watched)])

NextTrack == PollTracked \/ PollFails

SpecTrack == InitHist /\ [][NextTrack]_vars

\* ---------------------------------------------------------------------
\* Graphing variant (test_wsbc_script.py): the same tick with one cooldown
\* constant per channel, and a trend graph fed when a display changed.
\* ---------------------------------------------------------------------
\* variant: the newest sample is dropped instead of the oldest
limit_history_newest(g) ==
    IF Len(g.history_times) > g.max_points
    THEN [g EXCEPT !.history_times = SubSeq(@, 1, g.max_points),
                   !.history_ohb = SubSeq(@, 1, g.max_points),
                   !.history_ws = SubSeq(@, 1, g.max_points)]
    ELSE g

\* TrendGraph._limit_history
RECURSIVE limit_history(_)
limit_history(g) ==
    IF Len(g.history_times) > g.max_points
    THEN limit_history([g EXCEPT !.history_times = Tail(@),
                                 !.history_ohb = Tail(@),
                                 !.history_ws = Tail(@)])
    ELSE g

\* TrendGraph.update_series (the redraw changes no history)
update_series(g, ohb, ws, timestamp) ==
    limit_history([g EXCEPT !.history_times = Append(@, timestamp),
                            !.history_ohb = Append(@, ohb),
                            !.history_ws = Append(@, ws)])

TrendOhbAddBlock(s1, detected, timer, sum, now) ==
    IF s1 = 1 /\ ~detected
    THEN IF (now - timer) >= OHB_ADD_DELAY_MS
         THEN [detected |-> TRUE, timer |-> timer, sum |-> sum + 1, event |-> 1]
         ELSE [detected |-> TRUE, timer |-> timer, sum |-> sum, event |-> 0]
    ELSE IF s1 # 1 /\ detected
    THEN [detected |-> FALSE, timer |-> now, sum |-> sum, event |-> 0]
    ELSE [detected |-> detected, timer |-> timer, sum |-> sum, event |-> 0]

TrendOhbSubBlock(s2, detected, timer, sum, now) ==
    IF s2 = 1 /\ ~detected
    THEN IF (now - timer) >= OHB_SUB_DELAY_MS
         THEN [detected |-> TRUE, timer |-> timer,
               sum |-> IF sum > 0 THEN sum - 1 ELSE sum, event |-> -1]
         ELSE [detected |-> TRUE, timer |-> timer, sum |-> sum, event |-> 0]
    ELSE IF s2 # 1 /\ detected
    THEN [detected |-> FALSE, timer |-> now, sum |-> sum, event |-> 0]
    ELSE [detected |-> detected, timer |-> timer, sum |-> sum, event |-> 0]

TrendWsAddBlock(s3, detected, timer, sum, now) ==
    IF s3 = 1 /\ ~detected
    THEN IF (now - timer) >= WS_ADD_DELAY_MS
         THEN [detected |-> TRUE, timer |-> timer, sum |-> sum + 1, event |-> 1]
         ELSE [detected |-> TRUE, timer |-> timer, sum |-> sum, event |-> 0]
    ELSE IF s3 # 1 /\ detected
    THEN [detected |-> FALSE, timer |-> now, sum |-> sum, event |-> 0]
    ELSE [detected |-> detected, timer |-> timer, sum |-> sum, event |-> 0]

TrendWsSubBlock(s4, detected, timer, sum, now) ==
    IF s4 = 1 /\ ~detected
    THEN IF (now - timer) >= WS_SUB_DELAY_MS
         THEN [detected |-> TRUE, timer |-> timer,
               sum |-> IF sum > 0 THEN sum - 1 ELSE sum, event |-> -1]
         ELSE [detected |-> TRUE, timer |-> timer, sum |-> sum, event |-> 0]
    ELSE IF s4 # 1 /\ detected
    THEN [detected |-> FALSE, timer |-> now, sum |-> sum, event |-> 0]
    ELSE [detected |-> detected, timer |-> timer, sum |-> sum, event |-> 0]

\* variant: on channels 1 and 4 a suppressed activation is tried again
\* while the sensor is held
TwinStepRearm(w, smp, t) ==
    LET b1 == OhbAddBlockRetry(smp[1], w.detected[1], w.timer[1], w.sum_ohb, t)
        b2 == TrendOhbSubBlock(smp[2], w.detected[2], w.timer[2], b1.sum, t)
        b3 == TrendWsAddBlock(smp[3], w.detected[3], w.timer[3], w.sum_ws, t)
        b4 == WsSubBlockRetry(smp[4], w.detected[4], w.timer[4], b3.sum, t)
    IN  [detected |-> [ch \in Channels |->
                          IF ch = CHANNEL_OHB_ADD THEN b1.detected
                          ELSE IF ch = CHANNEL_OHB_SUB THEN b2.detected
                          ELSE IF ch = CHANNEL_WS_ADD THEN b3.detected
                          ELSE b4.detected],
         timer |-> [ch \in Channels |->
                       IF ch = CHANNEL_OHB_ADD THEN b1.timer
                       ELSE IF ch = CHANNEL_OHB_SUB THEN b2.timer
                       ELSE IF ch = CHANNEL_WS_ADD THEN b3.timer
                       ELSE b4.timer],
         sum_ohb |-> b2.sum, sum_ws |-> b4.sum,
         event |-> [ch \in Channels |->
                       IF ch = CHANNEL_OHB_ADD THEN b1.event
                       ELSE IF ch = CHANNEL_OHB_SUB THEN b2.event
                       ELSE IF ch = CHANNEL_WS_ADD THEN b3.event
                       ELSE b4.event]]

\* the four channel blocks of the graphing variant's read_inputs_and_update,
\* applied to its own globals w
TwinStep(w, smp, t) ==
    LET b1 == TrendOhbAddBlock(smp[1], w.detected[1], w.timer[1], w.sum_ohb, t)
        b2 == TrendOhbSubBlock(smp[2], w.detected[2], w.timer[2], b1.sum, t)
        b3 == TrendWsAddBlock(smp[3], w.detected[3], w.timer[3], w.sum_ws, t)
        b4 == TrendWsSubBlock(smp[4], w.detected[4], w.timer[4], b3.sum, t)
    IN  [detected |-> [ch \in Channels |->
                          IF ch = CHANNEL_OHB_ADD THEN b1.detected
                          ELSE IF ch = CHANNEL_OHB_SUB THEN b2.detected
                          ELSE IF ch = CHANNEL_WS_ADD THEN b3.detected
                          ELSE b4.detected],
         timer |-> [ch \in Channels |->
                       IF ch = CHANNEL_OHB_ADD THEN b1.timer
                       ELSE IF ch = CHANNEL_OHB_SUB THEN b2.timer
                       ELSE IF ch = CHANNEL_WS_ADD THEN b3.timer
                       ELSE b4.timer],
         sum_ohb |-> b2.sum, sum_ws |-> b4.sum,
         event |-> [ch \in Channels |->
                       IF ch = CHANNEL_OHB_ADD THEN b1.event
                       ELSE IF ch = CHANNEL_OHB_SUB THEN b2.event
                       ELSE IF ch = CHANNEL_WS_ADD THEN b3.event
                       ELSE b4.event]]

\* both scripts fed the same samples and the same clock reading in each
\* tick; a read that raises raises in both
PollTwin ==
    \E smp \in GroupSamples(watched), t \in Times :
        /\ TickOk(smp, t)
        /\ hist' = Observe(hist, smp[watched], t, last_release_time(watched),
                           event'[watched])
        /\ twin' = TwinStep(twin, smp, t)
        /\ UNCHANGED <<watched, live, script, trend, track>>

PollFailsTwin ==
    \E k \in FailChannels :
        /\ TickReadFailed(k)
        /\ twin' = [twin EXCEPT !.event = NoEvent]
        /\ UNCHANGED <<watched, hist, live, script, trend, track>>

NextTwin == PollTwin \/ PollFailsTwin

SpecTwin == InitHist /\ [][NextTwin]_vars

\* the cooldown constant of each channel in the graphing variant
trend_cooldown_duration(ch) ==
    IF ch = CHANNEL_OHB_ADD THEN OHB_ADD_DELAY_MS
    ELSE IF ch = CHANNEL_OHB_SUB THEN OHB_SUB_DELAY_MS
    ELSE IF ch = CHANNEL_WS_ADD THEN WS_ADD_DELAY_MS
    ELSE WS_SUB_DELAY_MS

\* both scripts fed any of the 16 sample vectors, sensors of both sums
\* included, and the same clock reading in each tick
PollBoth ==
    \E smp \in Samples, t \in Times :
        /\ TickOk(smp, t)
        /\ twin' = TwinStep(twin, smp, t)
        /\ UNCHANGED <<watched, hist, live, script, trend, track>>

PollFailsBoth ==
    \E k \in FailChannels :
        /\ TickReadFailed(k)
        /\ twin' = [twin EXCEPT !.event = NoEvent]
        /\ UNCHANGED <<watched, hist, live, script, trend, track>>

NextBoth == PollBoth \/ PollFailsBoth

SpecBoth == Init /\ [][NextBoth]_vars

\* variant: the graph is fed in every tick
CountsChangedAlways(changed) == TRUE

\* counts_changed: set in each of the three display branches
CountsChanged(changed) == changed # {}

\* time.time() readings are counted in microseconds
MS_PER_SECOND == 1000
USEC_PER_MS == 1000

\* int(time.time() * 1000): the reading in whole milliseconds, truncated
NowMs(c) == c \div USEC_PER_MS

\* a time.time() value as the graph stores it: seconds, here the whole
\* seconds and the microseconds beyond them
Seconds(c) ==
    [sec |-> c \div (MS_PER_SECOND * USEC_PER_MS),
     usec |-> c % (MS_PER_SECOND * USEC_PER_MS)]

\* microseconds from a millisecond boundary to the tick's first clock read
\* and from there to its second one
FIRST_READ_USEC == 400
SECOND_READ_LAG_USEC == 3000

\* the two clock readings of a tick, the second not before the first:
\* within the first cooldown both on the millisecond boundary, after time
\* 0 the first past the boundary and the second 3 ms later
ClockReads ==
    {<<t * USEC_PER_MS, t * USEC_PER_MS>> : t \in {u \in Times : u < SENSOR_DELAY}}
    \cup {<<t * USEC_PER_MS + FIRST_READ_USEC,
            t * USEC_PER_MS + FIRST_READ_USEC + SECOND_READ_LAG_USEC>> :
                t \in Times \ {0}}

\* read_inputs_and_update of the graphing variant, all four reads returning;
\* c1 is the clock reading that gives now_ms, c2 the later reading that
\* gives now_ts
TrendTickOk(smp, c1, c2) ==
    LET t == NowMs(c1)
        b1 == TrendOhbAddBlock(smp[1], sig_ohb_add_detected, timer_ohb_add, sum_ohb, t)
        b2 == TrendOhbSubBlock(smp[2], sig_ohb_sub_detected, timer_ohb_sub, b1.sum, t)
        b3 == TrendWsAddBlock(smp[3], sig_ws_add_detected, timer_ws_add, sum_ws, t)
        b4 == TrendWsSubBlock(smp[4], sig_ws_sub_detected, timer_ws_sub, b3.sum, t)
        total == b2.sum + b4.sum
        changed == ChangedCards(total, b2.sum, b4.sum, prev_total, prev_ohb, prev_ws)
        counts_changed == CountsChanged(changed)
        now_ts == Seconds(c2)
    IN  /\ pending >= 1
        /\ t >= now_ms
        /\ c2 >= c1
        /\ s' = smp
        /\ raised_at' = 0
        /\ now_ms' = t
        /\ sig_ohb_add_detected' = b1.detected /\ timer_ohb_add' = b1.timer
        /\ sig_ohb_sub_detected' = b2.detected /\ timer_ohb_sub' = b2.timer
        /\ sig_ws_add_detected' = b3.detected /\ timer_ws_add' = b3.timer
        /\ sig_ws_sub_detected' = b4.detected /\ timer_ws_sub' = b4.timer
        /\ sum_ohb' = b2.sum
        /\ sum_ws' = b4.sum
        /\ event' = [ch \in Channels |->
                        IF ch = CHANNEL_OHB_ADD THEN b1.event
                        ELSE IF ch = CHANNEL_OHB_SUB THEN b2.event
                        ELSE IF ch = CHANNEL_WS_ADD THEN b3.event
                        ELSE b4.event]
        /\ notified' = changed
        /\ prev_total' = IF "total" \in changed THEN total ELSE prev_total
        /\ prev_ohb' = IF "ohb" \in changed THEN b2.sum ELSE prev_ohb
        /\ prev_ws' = IF "ws" \in changed THEN b4.sum ELSE prev_ws
        /\ total_card' = IF "total" \in changed THEN total ELSE total_card
        /\ ohb_card' = IF "ohb" \in changed THEN b2.sum ELSE ohb_card
        /\ ws_card' = IF "ws" \in changed THEN b4.sum ELSE ws_card
        /\ graph_panel' = IF counts_changed
                          THEN update_series(graph_panel, b2.sum, b4.sum, now_ts)
                          ELSE graph_panel
        /\ series_calls' = IF counts_changed THEN << <<b2.sum, b4.sum>> >> ELSE <<>>
        /\ after_ms' = PollDelay(POLL_INTERVAL_MS)
        /\ pending' = MainAfter(AfterFired(pending))
        /\ UNCHANGED POLL_INTERVAL_MS

\* variant: the except branch forgets what was reported, so that the next
\* completed tick reports every value again
TrendTickReadFailedForgets(k) ==
    /\ pending >= 1
    /\ s' = <<>>
    /\ raised_at' = k
    /\ event' = NoEvent
    /\ notified' = {}
    /\ after_ms' = RetryDelay(POLL_INTERVAL_MS)
    /\ pending' = MainAfter(AfterFired(pending))
    /\ prev_total' = -1 /\ prev_ohb' = -1 /\ prev_ws' = -1
    /\ series_calls' = <<>>
    /\ UNCHANGED <<POLL_INTERVAL_MS, counters, flags, timers, cards, now_ms,
                   graph_panel>>

\* the variant's except branch is the one of the plain program
TrendTickReadFailed(k) ==
    /\ TickReadFailed(k)
    /\ series_calls' = <<>>
    /\ UNCHANGED graph_panel

\* at most one sensor active at a time
TrendPoll ==
    \E smp \in OneActive, c \in ClockReads :
        TrendTickOk(smp, c[1], c[2]) /\ UNCHANGED <<watched, hist, live, script, twin, track>>

TrendPollFails ==
    \E k \in FailChannels :
        TrendTickReadFailed(k) /\ UNCHANGED <<watched, hist, live, script, twin, track>>

NextTrend == TrendPoll \/ TrendPollFails

SpecTrend == Init /\ [][NextTrend]_vars

\* ---------------------------------------------------------------------
\* The trend graph alone, fed past its capacity: the i-th update_series
\* call carries timestamp i and the values FeedOhb(i), FeedWs(i), so that
\* every stored sample tells when it arrived.
\* ---------------------------------------------------------------------
FeedOhb(i) == i % 3
FeedWs(i) == i % 2
FeedLength == MAX_POINTS + MaxOver

FeedGraph ==
    /\ script.step < FeedLength
    /\ LET i == script.step + 1
       IN  /\ graph_panel' = update_series(graph_panel, FeedOhb(i), FeedWs(i), i)
           /\ series_calls' = << <<FeedOhb(i), FeedWs(i)>> >>
    /\ script' = [script EXCEPT !.step = @ + 1]
    /\ UNCHANGED <<POLL_INTERVAL_MS, counters, prevs, flags, timers, cards,
                   s, raised_at, now_ms, event, notified, after_ms, pending,
                   watched, hist, live, twin, track>>

NextGraph == FeedGraph

SpecGraph == Init /\ [][NextGraph]_vars

TypeOK ==
    /\ sum_ohb \in Int /\ sum_ws \in Int
    /\ now_ms \in Nat
    /\ pending \in Nat
    /\ raised_at \in {0} \cup FailChannels
    /\ notified \subseteq Cards
    /\ event \in [Channels -> {-1, 0, 1}]

\* ---------------------------------------------------------------------
\* C1: in a tick whose reads succeed, a channel sampled active while not
\* held, with now_ms - last_release_time >= its cooldown, becomes held and
\* emits exactly one event carrying its signed effect (+1 ADD, -1 SUB); the
\* sums are the old sums with the emitted events applied, decrements floored
\* at zero.
\* ---------------------------------------------------------------------
C1_RisingAccepted ==
    [][\A ch \in Channels :
          (/\ TickSucceeded'
           /\ s'[ch] = 1
           /\ ~is_held(ch)
           /\ (now_ms' - last_release_time(ch)) >= cooldown_duration(ch))
          => (/\ is_held(ch)'
              /\ event'[ch] = Effect(ch)
              /\ SumsFollowEvents)]_vars

\* both an ADD and a SUB sensor were accepted in the last tick, a counted
\* increment on one group and a decrement on the other
C1_Witness ==
    /\ TickSucceeded
    /\ event[CHANNEL_OHB_ADD] = 1 /\ is_held(CHANNEL_OHB_ADD) /\ sum_ohb = 1
    /\ event[CHANNEL_WS_SUB] = -1 /\ is_held(CHANNEL_WS_SUB)
    /\ now_ms - last_release_time(CHANNEL_OHB_ADD) >= cooldown_duration(CHANNEL_OHB_ADD)

\* ---------------------------------------------------------------------
\* C2: in a tick whose reads succeed, a channel sampled active while not
\* held, with now_ms - last_release_time < its cooldown, still becomes held,
\* emits no event, and contributes nothing to either sum: a group with no
\* emitted event keeps its sum.
\* ---------------------------------------------------------------------
C2_RisingSuppressed ==
    [][\A ch \in Channels :
          (/\ TickSucceeded'
           /\ s'[ch] = 1
           /\ ~is_held(ch)
           /\ (now_ms' - last_release_time(ch)) < cooldown_duration(ch))
          => (/\ is_held(ch)'
              /\ event'[ch] = 0
              /\ last_release_time(ch)' = last_release_time(ch)
              /\ (event'[CHANNEL_OHB_ADD] = 0 /\ event'[CHANNEL_OHB_SUB] = 0
                     => sum_ohb' = sum_ohb)
              /\ (event'[CHANNEL_WS_ADD] = 0 /\ event'[CHANNEL_WS_SUB] = 0
                     => sum_ws' = sum_ws))]_vars

\* one sensor is held uncounted half a cooldown after its (initial) release
\* time, another one right after a release observed at a later clock reading
C2_Witness ==
    /\ TickSucceeded
    /\ \E ch, other \in Channels :
          /\ is_held(ch) /\ s[ch] = 1 /\ event[ch] = 0
          /\ now_ms - last_release_time(ch) = HalfDelay
          /\ is_held(other) /\ s[other] = 1 /\ event[other] = 0
          /\ last_release_time(other) > 0
          /\ now_ms - last_release_time(other) < cooldown_duration(other)
    /\ sum_ohb = 0 /\ sum_ws = 0

\* ---------------------------------------------------------------------
\* C3: in a tick whose reads succeed, a held channel sampled inactive gets
\* last_release_time = now_ms of that tick and is_held = FALSE, and emits
\* no event.
\* ---------------------------------------------------------------------
C3_ReleaseObserved ==
    [][\A ch \in Channels :
          (TickSucceeded' /\ s'[ch] # 1 /\ is_held(ch))
          => (/\ last_release_time(ch)' = now_ms'
              /\ ~is_held(ch)'
              /\ event'[ch] = 0)]_vars

\* a sensor was released at a clock reading later than its previous release
C3_Witness ==
    /\ TickSucceeded
    /\ \E ch \in Channels :
          /\ ~is_held(ch) /\ s[ch] = 0
          /\ last_release_time(ch) = now_ms /\ now_ms > SENSOR_DELAY
          /\ event[ch] = 0
\* ---------------------------------------------------------------------
\* C4: a run of active samples that began within the cooldown of an
\* observed release emits no event, neither on its first sample nor on any
\* later sample of the run, however long after the release; the channel
\* stays held throughout.
\* ---------------------------------------------------------------------
C4_NonRetrigger ==
    (hist.gated /\ hist.high) => (hist.events = 0 /\ is_held(watched))

\* the watched sensor was released, went active again within the cooldown,
\* and is still active in a tick read more than one cooldown after the release
C4_Witness ==
    /\ TickSucceeded
    /\ hist.released /\ hist.gated /\ hist.high
    /\ hist.run >= 2
    /\ s[watched] = 1
    /\ now_ms > last_release_time(watched) + cooldown_duration(watched)
    /\ event[watched] = 0 /\ hist.events = 0

\* ---------------------------------------------------------------------
\* C5: a run of active samples emits at most one event; when the cooldown
\* had elapsed on its first sample it emits exactly one, on that first
\* sample; later active samples of the run and the inactive sample ending
\* it emit none.
\* ---------------------------------------------------------------------
C5_SingleCountPerHold ==
    /\ hist.events <= 1
    /\ hist.elapsed => (hist.events = 1 /\ hist.first)
    /\ (TickSucceeded /\ hist.high /\ hist.run >= 2) => event[watched] = 0
    /\ (TickSucceeded /\ s[watched] # 1) => event[watched] = 0

\* active, active, active, inactive: the run of three began with the
\* cooldown elapsed, counted once on its first sample, and has just ended
C5_Witness ==
    /\ TickSucceeded
    /\ s[watched] = 0 /\ ~hist.high
    /\ hist.run = 3
    /\ hist.elapsed /\ hist.first /\ hist.events = 1
    /\ last_release_time(watched) = now_ms

\* ---------------------------------------------------------------------
\* C6 as stated: a channel with is_held FALSE and last_release_time 0 that
\* is sampled active emits its event, whatever now_ms >= 0 the tick reads.
\* ---------------------------------------------------------------------
C6_FirstActivationAnyTime ==
    [][\A ch \in Channels :
          (/\ TickSucceeded'
           /\ s'[ch] = 1
           /\ ~is_held(ch)
           /\ last_release_time(ch) = 0
           /\ now_ms' >= 0)
          => event'[ch] = Effect(ch)]_vars

\* ---------------------------------------------------------------------
\* C6 amended: a channel with is_held FALSE and last_release_time 0 that is
\* sampled active becomes held; it emits its event when the tick's now_ms
\* is at least the cooldown, and emits nothing when now_ms is below it.
\* ---------------------------------------------------------------------
C6_FirstActivationAfterCooldown ==
    [][\A ch \in Channels :
          (/\ TickSucceeded'
           /\ s'[ch] = 1
           /\ ~is_held(ch)
           /\ last_release_time(ch) = 0)
          => (/\ is_held(ch)'
              /\ (now_ms' >= cooldown_duration(ch) => event'[ch] = Effect(ch))
              /\ (now_ms' < cooldown_duration(ch) => event'[ch] = 0))]_vars

\* every sensor counted on its first activation, in one tick read at or
\* after one cooldown past clock reading 0
C6_Witness ==
    /\ TickSucceeded
    /\ now_ms >= SENSOR_DELAY
    /\ \A ch \in Channels :
          /\ last_release_time(ch) = 0
          /\ is_held(ch)
          /\ event[ch] = Effect(ch)

\* ---------------------------------------------------------------------
\* C7: both sums are never negative, and a decrement event accepted while
\* its sum is 0 (no increment in the same tick) leaves the sum at 0 in a
\* tick that completes normally.
\* ---------------------------------------------------------------------
C7_FloorClamp ==
    /\ [](sum_ohb >= 0 /\ sum_ws >= 0)
    /\ [][/\ (/\ TickSucceeded'
              /\ event'[CHANNEL_OHB_SUB] = -1
              /\ event'[CHANNEL_OHB_ADD] = 0
              /\ sum_ohb = 0) => sum_ohb' = 0
          /\ (/\ TickSucceeded'
              /\ event'[CHANNEL_WS_SUB] = -1
              /\ event'[CHANNEL_WS_ADD] = 0
              /\ sum_ws = 0) => sum_ws' = 0]_vars

\* a decrement was accepted on each group although neither ADD sensor has
\* ever been active, so both sums were 0 before it and are 0 after it
C7_Witness ==
    /\ TickSucceeded
    /\ event[CHANNEL_OHB_SUB] = -1 /\ event[CHANNEL_WS_SUB] = -1
    /\ ~is_held(CHANNEL_OHB_ADD) /\ ~is_held(CHANNEL_WS_ADD)
    /\ prev_ohb = 0 /\ prev_ws = 0
    /\ sum_ohb = 0 /\ sum_ws = 0
    /\ notified = {}

\* ---------------------------------------------------------------------
\* C8: in a tick whose reads succeed, set_value runs on a card exactly when
\* the quantity's new value differs from the one last reported for it; a
\* tick that reproduces the previous tick's sums sends nothing, and a tick
\* in which sum_ohb rises by 1 while sum_ws falls by 1 updates the OHB and
\* WS cards but not the total card.
\* ---------------------------------------------------------------------
C8_ChangeOnly ==
    [][TickSucceeded' =>
         /\ ("total" \in notified') <=> (sum_ohb' + sum_ws' # prev_total)
         /\ ("ohb" \in notified') <=> (sum_ohb' # prev_ohb)
         /\ ("ws" \in notified') <=> (sum_ws' # prev_ws)
         /\ notified' \subseteq Cards
         /\ (TickSucceeded /\ sum_ohb' = sum_ohb /\ sum_ws' = sum_ws)
               => notified' = {}
         /\ (sum_ohb' = sum_ohb + 1 /\ sum_ws' = sum_ws - 1)
               => notified' = {"ohb", "ws"}]_vars

\* the last tick counted an OHB increment and a WS decrement from 1 to 0
\* and updated exactly the OHB and WS cards
C8_Witness ==
    /\ TickSucceeded
    /\ event[CHANNEL_OHB_ADD] = 1 /\ event[CHANNEL_OHB_SUB] = 0
    /\ event[CHANNEL_WS_SUB] = -1 /\ event[CHANNEL_WS_ADD] = 0
    /\ sum_ohb = 1 /\ sum_ws = 0
    /\ prev_total = 1
    /\ notified = {"ohb", "ws"}

\* ---------------------------------------------------------------------
\* C9: a tick in which a read raises, on the first channel or after
\* earlier channels were read, leaves sum_ohb, sum_ws and every channel's
\* is_held and last_release_time as they were.
\* ---------------------------------------------------------------------
C9_ReadFailureIsolation ==
    [][TickFailed' =>
         /\ sum_ohb' = sum_ohb /\ sum_ws' = sum_ws
         /\ \A ch \in Channels :
               /\ is_held(ch)' = is_held(ch)
               /\ last_release_time(ch)' = last_release_time(ch)]_vars

\* the read of the last channel raised, after three reads had returned, in
\* a state with a count, held and unheld sensors and a recorded release
C9_Witness ==
    /\ TickFailed
    /\ raised_at = CHANNEL_WS_SUB
    /\ sum_ohb = 1
    /\ ~is_held(CHANNEL_OHB_ADD)
    /\ is_held(CHANNEL_WS_ADD)
    /\ last_release_time(CHANNEL_OHB_SUB) > 0

\* ---------------------------------------------------------------------
\* C10: after a tick whose read failed the pending callback is scheduled
\* max(200, poll interval) ms ahead, hence at least 200 ms; after a tick
\* whose reads succeeded it is scheduled exactly the poll interval ahead.
\* ---------------------------------------------------------------------
C10_RetryDelay ==
    /\ TickFailed =>
          /\ after_ms = (IF POLL_INTERVAL_MS > 200 THEN POLL_INTERVAL_MS ELSE 200)
          /\ after_ms >= 200
    /\ TickSucceeded => after_ms = POLL_INTERVAL_MS

\* a failed tick under the shipped 10 ms interval waits 200 ms
C10_Witness ==
    /\ TickFailed
    /\ POLL_INTERVAL_MS < 200
    /\ after_ms = 200
    /\ sig_ohb_add_detected
\* C11: every tick, whether it changed counts, changed nothing or failed
\* to read, leaves exactly one read_inputs_and_update callback queued, so
\* the poll loop is neither duplicated nor dropped; the pending callback
\* carries the delay chosen by the tick that queued it.
C11_OnePending ==
    /\ pending = 1
    /\ TickSucceeded => after_ms = POLL_INTERVAL_MS
    /\ (~TickSucceeded /\ ~TickFailed) => after_ms = START_DELAY_MS

\* a failed tick that follows a counted event still leaves one callback
C11_Witness ==
    /\ TickFailed
    /\ sum_ohb + sum_ws > 0
    /\ pending = 1

\* C12: a failed tick is never the last one: under a fair timer another
\* tick is attempted after it, however many failed ticks came before; and
\* the failed ticks leave counters, prev values, is_held flags and release
\* times as they were, so the first tick that reads successfully again
\* continues from the state before the failures.
C12_RetryEventually ==
    /\ \A b \in {0, 1} : (TickFailed /\ live.beat = b) ~> (live.beat # b)
    /\ [][TickFailed' => UNCHANGED <<counters, prevs, flags, timers>>]_vars

\* reads succeed again after MaxFails failed ticks in a row and the tick
\* counts an event on top of the count kept through the failures
C12_Witness ==
    /\ TickSucceeded
    /\ live.resumed = MaxFails
    /\ \E ch \in Channels : event[ch] # 0
    /\ sum_ohb + sum_ws > 0

\* what the reference run is said to produce, tick by tick
ScenarioExpected ==
    /\ script.step = 1 =>
          /\ sum_ohb = 1 /\ total_card = 1 /\ ohb_card = 1
          /\ TickSucceeded => (event[CHANNEL_OHB_ADD] = 1
                                /\ {"total", "ohb"} \subseteq notified)
    /\ script.step = 2 =>
          /\ sum_ohb = 1 /\ is_held(CHANNEL_OHB_ADD)
          /\ TickSucceeded => (event = NoEvent /\ notified = {})
    /\ script.step = 3 =>
          /\ sum_ohb = 1 /\ ~is_held(CHANNEL_OHB_ADD)
          /\ last_release_time(CHANNEL_OHB_ADD) = script.base + ScenarioOffsets[3]
          /\ TickSucceeded => (event = NoEvent /\ notified = {})
    /\ script.step = 4 =>
          /\ sum_ohb = 1 /\ is_held(CHANNEL_OHB_ADD)
          /\ TickSucceeded => (event = NoEvent /\ notified = {})
    /\ script.step = 5 =>
          /\ sum_ohb = 1 /\ total_card = 1 /\ is_held(CHANNEL_OHB_ADD)
          /\ last_release_time(CHANNEL_OHB_ADD) = script.base + ScenarioOffsets[3]
          /\ TickSucceeded => (event = NoEvent /\ notified = {})

\* C13 as stated: the reference run with its ticks timestamped 0, 10, 20,
\* 500, 1200 counts the first activation, notifies total and OHB, records
\* the release at 20, holds without counting at 500 and 1200, and ends
\* with sum_ohb = 1.
C13_ScenarioAsGiven ==
    script.base = 0 => ScenarioExpected

\* C13: the reference run with its ticks timestamped T + 0, 10, 20, 500,
\* 1200 for a base T of at least the cooldown produces the stated outcomes
\* and ends with sum_ohb = 1; with T = 0 the first activation is read less
\* than a cooldown after the initial release time 0, is suppressed, and the
\* run ends with sum_ohb = 0.
C13_ScenarioAfterCooldown ==
    /\ script.base >= cooldown_duration(CHANNEL_OHB_ADD) => ScenarioExpected
    /\ (script.base = 0 /\ script.step = Len(ScenarioOffsets)) =>
          (sum_ohb = 0 /\ is_held(CHANNEL_OHB_ADD))

\* the whole run played from a base one cooldown after zero
C13_Witness ==
    /\ script.base = SENSOR_DELAY
    /\ script.step = Len(ScenarioOffsets)
    /\ TickSucceeded
    /\ now_ms = script.base + ScenarioOffsets[5]
    /\ sum_ohb = 1

\* C14 as stated: in the graphing variant a tick calls update_series once,
\* with the sums it leaves, when sum_ohb or sum_ws changed in it, and does
\* not call it when neither sum changed.
C14_RecordOnSumChange ==
    [][TickSucceeded' =>
         series_calls' = IF sum_ohb' # sum_ohb \/ sum_ws' # sum_ws
                         THEN << <<sum_ohb', sum_ws'>> >>
                         ELSE <<>>]_vars

\* C14: in the graphing variant a tick calls update_series once, with the
\* sums it leaves, when sum_ohb or sum_ws changed in it or when it is the
\* first tick whose reads succeed (prev values still -1); every other
\* tick, a failed one included, does not call it.
C14_RecordOnChangeOrFirst ==
    [][/\ TickSucceeded' =>
            series_calls' = IF \/ sum_ohb' # sum_ohb
                               \/ sum_ws' # sum_ws
                               \/ prev_total = -1
                            THEN << <<sum_ohb', sum_ws'>> >>
                            ELSE <<>>
       /\ TickFailed' => series_calls' = <<>>]_vars

\* a tick other than the first successful one recorded a changed sum
C14_Witness ==
    /\ TickSucceeded
    /\ Len(graph_panel.history_times) >= 2
    /\ series_calls = << <<sum_ohb, sum_ws>> >>
    /\ sum_ohb = 1

\* C15: after every update_series call the three history lists have one
\* length, at most max_points (240); once more than max_points samples
\* have arrived the lists hold exactly the max_points most recent ones,
\* oldest first, each list keeping the value that arrived with the sample.
C15_BoundedFifo ==
    LET g == graph_panel
        n == script.step
        len == Len(g.history_times)
    IN  /\ Len(g.history_ohb) = len /\ Len(g.history_ws) = len
        /\ len <= MAX_POINTS
        /\ len = IF n <= MAX_POINTS THEN n ELSE MAX_POINTS
        /\ \A j \in 1..len :
              /\ g.history_times[j] = n - len + j
              /\ g.history_ohb[j] = FeedOhb(n - len + j)
              /\ g.history_ws[j] = FeedWs(n - len + j)

\* MaxOver samples beyond the capacity have arrived and the oldest stored
\* sample is the one that arrived right after the dropped ones
C15_Witness ==
    /\ script.step = MAX_POINTS + MaxOver
    /\ Len(graph_panel.history_times) = MAX_POINTS
    /\ graph_panel.history_times[1] = MaxOver + 1
    /\ graph_panel.history_times[MAX_POINTS] = MAX_POINTS + MaxOver

\* C16: after a tick whose reads succeeded every channel's is_held equals
\* "its sample in that tick was active"; after failed ticks the watched
\* channel's is_held still equals the level the observer last saw in a
\* successful tick.  Suppressed activations are no exception.
C16_HeldIsLastSample ==
    /\ TickSucceeded => \A ch \in Channels : is_held(ch) <=> (s[ch] = 1)
    /\ is_held(watched) <=> hist.high

\* a failed tick after a suppressed activation: the channel is still held
C16_Witness ==
    /\ TickFailed
    /\ hist.high /\ hist.gated /\ hist.events = 0
    /\ is_held(watched)

\* C17: in a tick whose reads succeeded, what happens to a channel is
\* fixed by that channel's own sample, own is_held, own last_release_time
\* and own cooldown together with the tick's now_ms: is_held becomes "the
\* sample is active", last_release_time becomes now_ms on a release and is
\* kept otherwise, and an event is emitted exactly on a rising edge whose
\* own cooldown has elapsed.  No other channel's sample, flag or release
\* time enters.  This holds for the script with the one shared cooldown
\* SENSOR_DELAY and for the script with one cooldown constant per channel,
\* both fed every combination of the four sensors.
C17_ChannelIndependence ==
    [][TickSucceeded' =>
         \A ch \in Channels :
            /\ is_held(ch)' <=> (s'[ch] = 1)
            /\ last_release_time(ch)' =
                  IF s'[ch] # 1 /\ is_held(ch) THEN now_ms'
                  ELSE last_release_time(ch)
            /\ (event'[ch] # 0) <=>
                  (/\ s'[ch] = 1
                   /\ ~is_held(ch)
                   /\ (now_ms' - last_release_time(ch)) >= cooldown_duration(ch))
            /\ twin'.detected[ch] <=> (s'[ch] = 1)
            /\ twin'.timer[ch] =
                  IF s'[ch] # 1 /\ twin.detected[ch] THEN now_ms'
                  ELSE twin.timer[ch]
            /\ (twin'.event[ch] # 0) <=>
                  (/\ s'[ch] = 1
                   /\ ~twin.detected[ch]
                   /\ (now_ms' - twin.timer[ch]) >= trend_cooldown_duration(ch))]_vars

\* in both scripts one sensor was released in the very tick in which a
\* sensor of the same sum and a sensor of the other sum were counted
C17_Witness ==
    /\ TickSucceeded
    /\ now_ms > 0
    /\ \E a, b, c \in Channels :
          /\ SameGroup(a, b) /\ ~SameGroup(a, c)
          /\ s[a] # 1 /\ last_release_time(a) = now_ms
          /\ event[b] # 0
          /\ event[c] # 0
          /\ ~twin.detected[a] /\ twin.timer[a] = now_ms
          /\ twin.event[b] # 0
          /\ twin.event[c] # 0

\* C18: an event carries +1 on channels 1 and 3 and -1 on channels 2 and
\* 4; sum_ohb moves only by the events of channels 1 and 2 (add 1, then
\* subtract 1 unless that would go below zero) and sum_ws only by those of
\* channels 3 and 4; a sum whose own two channels emit nothing is
\* unchanged, and no sum moves by more than 1 in one tick.
C18_RoleMapping ==
    [][TickSucceeded' =>
         /\ \A ch \in Channels : event'[ch] \in {0, Effect(ch)}
         /\ sum_ohb' = AppliedSum(sum_ohb, event'[CHANNEL_OHB_ADD], event'[CHANNEL_OHB_SUB])
         /\ sum_ws' = AppliedSum(sum_ws, event'[CHANNEL_WS_ADD], event'[CHANNEL_WS_SUB])
         /\ (event'[CHANNEL_OHB_ADD] = 0 /\ event'[CHANNEL_OHB_SUB] = 0)
               => sum_ohb' = sum_ohb
         /\ (event'[CHANNEL_WS_ADD] = 0 /\ event'[CHANNEL_WS_SUB] = 0)
               => sum_ws' = sum_ws
         /\ sum_ohb' - sum_ohb \in {-1, 0, 1}
         /\ sum_ws' - sum_ws \in {-1, 0, 1}]_vars

\* OHB counted up and down in one tick while a WS sensor counted alone
C18_Witness ==
    /\ TickSucceeded
    /\ event[CHANNEL_OHB_ADD] = 1 /\ event[CHANNEL_OHB_SUB] = -1
    /\ event[CHANNEL_WS_ADD] = 1 /\ event[CHANNEL_WS_SUB] = 0
    /\ sum_ws = 1

\* C19: one now_ms serves the whole tick: every channel released in a tick
\* gets that tick's now_ms as last_release_time, so two channels released
\* in one tick have equal release times; and two channels that rise in one
\* tick from equal release times and equal cooldowns are both counted or
\* both suppressed, their guards being read at the same instant.
C19_OneInstant ==
    [][TickSucceeded' =>
         \A a \in Channels : \A b \in {c \in Channels : c >= a} :
            /\ (/\ s'[a] # 1 /\ is_held(a)
                /\ s'[b] # 1 /\ is_held(b))
               => (/\ last_release_time(a)' = now_ms'
                   /\ last_release_time(a)' = last_release_time(b)')
            /\ (/\ s'[a] = 1 /\ ~is_held(a)
                /\ s'[b] = 1 /\ ~is_held(b)
                /\ last_release_time(a) = last_release_time(b)
                /\ cooldown_duration(a) = cooldown_duration(b))
               => ((event'[a] # 0) <=> (event'[b] # 0))]_vars

\* two sensors of different sums were released at one and the same now_ms,
\* later than the release of a third
C19_Witness ==
    /\ TickSucceeded
    /\ \E a, b, c \in Channels :
          /\ ~SameGroup(a, b)
          /\ s[a] # 1 /\ s[b] # 1
          /\ last_release_time(a) = now_ms
          /\ last_release_time(b) = now_ms
          /\ last_release_time(c) > 0
          /\ last_release_time(c) < now_ms

\* C20: once a tick has read successfully, the value last shown on the
\* total display is the sum of the values last shown on the OHB and WS
\* displays, and the three displays show sum_ohb + sum_ws, sum_ohb and
\* sum_ws as they are now; failed ticks in between do not disturb this.
C20_TotalDerived ==
    (TickSucceeded \/ prev_total >= 0) =>
        /\ total_card = ohb_card + ws_card
        /\ ohb_card = sum_ohb
        /\ ws_card = sum_ws
        /\ total_card = sum_ohb + sum_ws

\* both sums have counted, and the last tick showed nothing new
C20_Witness ==
    /\ TickSucceeded
    /\ notified = {}
    /\ sum_ohb = 1 /\ sum_ws = 1
    /\ total_card = 2

\* C21: a tick that samples a channel inactive while it is not held, or
\* active while it is held, leaves that channel's is_held and
\* last_release_time as they were and emits no event for it.
C21_NoOp ==
    [][TickSucceeded' =>
         \A ch \in Channels :
            ((s'[ch] # 1 /\ ~is_held(ch)) \/ (s'[ch] = 1 /\ is_held(ch)))
            => (/\ is_held(ch)' = is_held(ch)
                /\ last_release_time(ch)' = last_release_time(ch)
                /\ event'[ch] = 0)]_vars

\* the watched sensor, released once before, is in its third tick of a
\* hold that began with a counted event, at a later clock reading than its
\* release, while its group partner sits idle at its initial release time
C21_Witness ==
    /\ TickSucceeded
    /\ hist.high /\ hist.run >= 3 /\ hist.released /\ hist.first
    /\ is_held(watched)
    /\ event[watched] = 0
    /\ now_ms > last_release_time(watched)
    /\ \E o \in Channels :
          /\ o # watched /\ SameGroup(o, watched)
          /\ ~is_held(o) /\ s[o] # 1 /\ last_release_time(o) = 0

\* the watched sensor has been held since a rising edge that came within
\* its cooldown, and by the last tick the cooldown has elapsed
LateHold ==
    /\ TickSucceeded
    /\ hist.high /\ hist.run >= 2 /\ ~hist.elapsed
    /\ (now_ms - last_release_time(watched)) >= cooldown_duration(watched)

\* C22 as stated: fed the same samples and timestamps, the two scripts
\* come apart on a suppressed activation that stays held past the
\* cooldown: one emits the event then, the other never does.
C22_VariantsDisagree ==
    LateHold =>
        \/ twin.event # event
        \/ twin.sum_ohb # sum_ohb
        \/ twin.sum_ws # sum_ws
        \/ \E ch \in Channels : twin.detected[ch] # is_held(ch)

\* C22: fed the same samples and timestamps, the two scripts keep equal
\* is_held flags, release times and sums and emit the same events in every
\* tick; a suppressed activation that stays held past the cooldown is
\* emitted by neither.
C22_VariantsAgree ==
    /\ \A ch \in Channels :
          /\ twin.detected[ch] = is_held(ch)
          /\ twin.timer[ch] = last_release_time(ch)
    /\ twin.sum_ohb = sum_ohb
    /\ twin.sum_ws = sum_ws
    /\ twin.event = event
    /\ LateHold => (hist.events = 0 /\ event[watched] = 0 /\ twin.event[watched] = 0)

\* a suppressed activation, after an earlier release, held into a tick in
\* which its cooldown has elapsed
C22_Witness ==
    /\ LateHold
    /\ hist.gated
    /\ twin.detected[watched]
    /\ twin.event[watched] = 0

\* C23: with a clock that does not run backwards, two successive events of
\* one channel are at least that channel's cooldown apart.
C23_MinSpacing ==
    track.spacing # -1 => track.spacing >= cooldown_duration(watched)

\* the watched sensor was counted twice, exactly one cooldown apart
C23_Witness ==
    /\ TickSucceeded
    /\ event[watched] # 0
    /\ track.last_event_at = now_ms
    /\ track.spacing = cooldown_duration(watched)

\* C24: every observed fall of the input restarts the cooldown, also the
\* fall after a suppressed activation: in a streak of rising edges that
\* each come less than a cooldown after the fall before them no event is
\* emitted, however long the streak and however long ago the last event.
C24_TogglingStaysSilent ==
    ~track.streak_fired

\* MaxToggles quick toggles in a row, the last one a full cooldown or
\* more after the last counted event, and still nothing emitted
C24_Witness ==
    /\ TickSucceeded
    /\ track.streak = MaxToggles
    /\ is_held(watched)
    /\ track.last_event_at >= 0
    /\ (now_ms - track.last_event_at) >= cooldown_duration(watched)
    /\ event[watched] = 0

\* C26: a SUB activation accepted on a sum at zero leaves the sum at zero
\* and the channel held; for as long as the input stays active nothing is
\* subtracted and no event is emitted for it, also once the sum has become
\* positive.
C26_ClampConsumes ==
    /\ ~track.leak
    /\ track.clamped => (is_held(watched) /\ Effect(watched) = -1)

\* a SUB sensor still held since its decrement found the sum at zero, the
\* sum having become positive in the meantime
C26_Witness ==
    /\ TickSucceeded
    /\ track.clamped
    /\ s[watched] = 1
    /\ OwnSum(watched) > 0
    /\ event[watched] = 0

\* C25: within a tick the ADD sensor of a sum is applied before its SUB
\* sensor: when both are accepted in one tick and the sum was 0, the sum
\* is 0 after the tick (incremented, then decremented), not 1 (clamped,
\* then incremented); the same for the WS sum.
C25_AddBeforeSub ==
    [][TickSucceeded' =>
         /\ (/\ event'[CHANNEL_OHB_ADD] = 1
             /\ event'[CHANNEL_OHB_SUB] = -1
             /\ sum_ohb = 0) => sum_ohb' = 0
         /\ (/\ event'[CHANNEL_WS_ADD] = 1
             /\ event'[CHANNEL_WS_SUB] = -1
             /\ sum_ws = 0) => sum_ws' = 0]_vars

\* both sensors of the watched sum were accepted in the last tick and the
\* sum, 0 before, is 0 again
C25_Witness ==
    /\ TickSucceeded
    /\ event[AddOf(watched)] = 1
    /\ \E o \in Channels :
          SameGroup(o, watched) /\ Effect(o) = -1 /\ event[o] = -1
    /\ OwnSum(watched) = 0
    /\ prev_total = 0

\* C27: the reported triple starts at (-1, -1, -1), so the first tick whose
\* reads succeed notifies the three displays with the current values
\* whatever the samples are, and the graphing variant records one graph
\* sample; every later successful tick notifies exactly the displays
\* whose value differs from the reported one, and records a graph sample
\* exactly when it notified one.
C27_InitialPublication ==
    [][TickSucceeded' =>
         IF prev_total = -1 /\ prev_ohb = -1 /\ prev_ws = -1
         THEN /\ notified' = Cards
              /\ total_card' = sum_ohb' + sum_ws'
              /\ ohb_card' = sum_ohb'
              /\ ws_card' = sum_ws'
              /\ prev_total' = sum_ohb' + sum_ws'
              /\ prev_ohb' = sum_ohb'
              /\ prev_ws' = sum_ws'
              /\ series_calls' = << <<sum_ohb', sum_ws'>> >>
              /\ Len(graph_panel'.history_ohb) = Len(graph_panel.history_ohb) + 1
         ELSE /\ ("total" \in notified') = (sum_ohb' + sum_ws' # prev_total)
              /\ ("ohb" \in notified') = (sum_ohb' # prev_ohb)
              /\ ("ws" \in notified') = (sum_ws' # prev_ws)
              /\ (series_calls' # <<>>) = (notified' # {})]_vars

\* the first completed tick saw no event and still reported the three
\* values, all 0, and recorded the one graph sample
C27_Witness ==
    /\ TickSucceeded
    /\ event = NoEvent
    /\ notified = Cards
    /\ total_card = 0 /\ ohb_card = 0 /\ ws_card = 0
    /\ series_calls = << <<0, 0>> >>
    /\ Len(graph_panel.history_ohb) = 1

\* C28: a tick whose hardware read failed notifies no display, records no
\* graph sample and leaves prev_total, prev_ohb and prev_ws as they were;
\* apart from the callback it schedules, the displays, the graph, the
\* sums, the flags and the timers are what they were before the tick.
C28_FailedTickIsSilent ==
    [][TickFailed' =>
         /\ notified' = {}
         /\ series_calls' = <<>>
         /\ prev_total' = prev_total /\ prev_ohb' = prev_ohb /\ prev_ws' = prev_ws
         /\ graph_panel' = graph_panel
         /\ UNCHANGED <<cards, counters, flags, timers, now_ms>>
         /\ pending' = pending]_vars

\* a read failed after a count had been reported and two graph samples
\* recorded; the reported triple still holds that count
C28_Witness ==
    /\ TickFailed
    /\ prev_total = 1 /\ prev_ohb = 1 /\ prev_ws = 0
    /\ sum_ohb = 1
    /\ Len(graph_panel.history_ohb) = 2
    /\ notified = {}
    /\ series_calls = <<>>

====
